---------------------------- MODULE Spec2Model ----------------------------
(***************************************************************************)
(* Excel-to-SQL reconciler: the local reconciliation analyzer              *)
(* (perform_local_reconciliation) and the report normalizer                *)
(* (generate_reconciliation_report) of src/src/utils/reconciliation.py.    *)
(*                                                                         *)
(* Representation.                                                         *)
(*   - A DataFrame is [columns, dtypes, rows]: the column names in order,  *)
(*     the dtype of each column (parallel to columns) and the rows, each   *)
(*     a tuple of cells parallel to columns.                               *)
(*   - A cell is <<>> (NaN / None) or <<v>>.                               *)
(*   - Amounts are fixed-point integers in units of 0.0000001, so that     *)
(*     0.01 is 100000 and 0.0100001 is 100001.                             *)
(*   - A Python value (an issue string, a transaction id, a reason) is a   *)
(*     record [kind, s, col, x1, x2, x3, x4]: a literal string, None, an   *)
(*     int, or one of the f-strings of the analyzer with the values it     *)
(*     interpolates, already formatted.                                    *)
(*   - A text that the code transforms character by character is a tuple   *)
(*     of one-character strings.                                           *)
(***************************************************************************)
EXTENDS Integers, Sequences, FiniteSets, TLC

VARIABLES df_excel, df_sql, ai_mismatches, local_results, report_df, pc

VARIABLES api_key, sample_size, ai_sample, ai_message

VARIABLES session_state, uploads, page

vars == <<df_excel, df_sql, ai_mismatches, local_results, report_df, pc,
          api_key, sample_size, ai_sample, ai_message,
          session_state, uploads, page>>

(***************************************************************************)
(* Bounds of the model                                                     *)
(***************************************************************************)
MaxRows == 2

MaxAI == 2

\* Row counts of the two long files, below and above the AI sample size
ShortFileRows == 60

LongFileRows == 120

(***************************************************************************)
(* Generic helpers                                                         *)
(***************************************************************************)
SeqsUpTo(S, n) == UNION {[1..k -> S] : k \in 0..n}

RECURSIVE Product(_)
Product(pools) ==
    IF pools = <<>> THEN {<<>>}
    ELSE {<<h>> \o t : h \in Head(pools), t \in Product(Tail(pools))}

Abs(x) == IF x < 0 THEN -x ELSE x

Max(a, b) == IF a >= b THEN a ELSE b

Min(a, b) == IF a <= b THEN a ELSE b

\* Nearest integer to n / d for n >= 0, d > 0, ties to even: what the
\* format specifications ".2f" and ".1f" do to an exactly held value.
RoundHalfEven(n, d) ==
    LET q == n \div d
        r == n % d
    IN  IF 2 * r < d THEN q
        ELSE IF 2 * r > d THEN q + 1
        ELSE IF q % 2 = 0 THEN q ELSE q + 1

(***************************************************************************)
(* Python values                                                           *)
(***************************************************************************)
Val(kind, s, col, x1, x2, x3, x4) ==
    [kind |-> kind, s |-> s, col |-> col, x1 |-> x1, x2 |-> x2, x3 |-> x3, x4 |-> x4]

Str(s) == Val("str", s, "", 0, 0, 0, 0)

None == Val("None", "", "", 0, 0, 0, 0)

IntVal(n) == Val("int", "", "", n, 0, 0, 0)

(***************************************************************************)
(* DataFrames                                                              *)
(***************************************************************************)
DataFrame(columns, dtypes, rows) ==
    [columns |-> columns, dtypes |-> dtypes, rows |-> rows]

len(df) == Len(df.rows)

HasColumn(df, col) == \E i \in 1..Len(df.columns) : df.columns[i] = col

ColIndex(df, col) == CHOOSE i \in 1..Len(df.columns) : df.columns[i] = col

\* df[col]: the Series of the column's cells, in row order
Series(df, col) == [i \in 1..Len(df.rows) |-> df.rows[i][ColIndex(df, col)]]

DtypeOf(df, col) == df.dtypes[ColIndex(df, col)]

IsNumericDtype(dt) == dt \in {"float64", "int64"}

\* df.select_dtypes(include=['float64', 'int64']).columns
numeric_cols(df) ==
    LET keep == {i \in 1..Len(df.columns) : IsNumericDtype(df.dtypes[i])}
        RECURSIVE Pick(_)
        Pick(i) == IF i > Len(df.columns) THEN <<>>
                   ELSE IF i \in keep THEN <<df.columns[i]>> \o Pick(i + 1)
                   ELSE Pick(i + 1)
    IN  Pick(1)

\* The tolerance 0.01 of the totals comparison, in units of 0.0000001. It is
\* also one unit of the second decimal place kept by the ":,.2f" format.
Tolerance == 100000

\* A float64 amount that a sum or a difference produces is held in two parts,
\* <<hundredths, rest>>, standing for hundredths * 0.01 + rest * 0.0000001
\* with 0 <= rest < Tolerance: sums of hundreds of dollars keep the
\* resolution of the cells.
Amount(hundredths, rest) == <<hundredths + (rest \div Tolerance), rest % Tolerance>>

AmountAdd(a, b) == Amount(a[1] + b[1], a[2] + b[2])

AmountSub(a, b) == Amount(a[1] - b[1], a[2] - b[2])

AmountTimes(k, a) == Amount(k * a[1], k * a[2])

AmountLess(a, b) == a[1] < b[1] \/ (a[1] = b[1] /\ a[2] < b[2])

AmountAbs(a) == IF a[1] < 0 THEN Amount(-a[1], -a[2]) ELSE a

AmountMax(a, b) == IF AmountLess(a, b) THEN b ELSE a

\* Series.sum() of a numeric column: NaN cells are skipped, the empty sum is
\* 0. The sum is taken by halves, which keeps the recursion shallow on the
\* long files.
RECURSIVE NumericSum(_)
NumericSum(series) ==
    IF series = <<>> THEN Amount(0, 0)
    ELSE IF Len(series) = 1
    THEN (IF series[1] = <<>> THEN Amount(0, 0) ELSE Amount(0, series[1][1]))
    ELSE LET half == Len(series) \div 2
         IN  AmountAdd(NumericSum(SubSeq(series, 1, half)),
                       NumericSum(SubSeq(series, half + 1, Len(series))))

\* Series.isnull().sum()
isnull_sum(series) == Cardinality({i \in 1..Len(series) : series[i] = <<>>})

\* Series.sum() of an object column holding strings and None. With at least
\* one string the result is a string (or the sum itself fails), and the
\* subtraction of line 157 raises TypeError; with none the sum is 0.
ObjectSumIsNumber(series) == \A i \in 1..Len(series) : series[i] = <<>>

ColumnSumRaises(df, col) ==
    /\ ~IsNumericDtype(DtypeOf(df, col))
    /\ ~ObjectSumIsNumber(Series(df, col))

ColumnSum(df, col) ==
    IF IsNumericDtype(DtypeOf(df, col)) THEN NumericSum(Series(df, col)) ELSE Amount(0, 0)

\* Mutant: every row that has a twin is counted, duplicated(keep=False)
duplicated_all(df) ==
    Cardinality({i \in 1..Len(df.rows) :
                    \E j \in 1..Len(df.rows) : j # i /\ df.rows[j] = df.rows[i]})

\* DataFrame.duplicated().sum(): the rows equal to an earlier row in all columns
duplicated_sum(df) ==
    Cardinality({i \in 1..Len(df.rows) : \E j \in 1..(i - 1) : df.rows[j] = df.rows[i]})

(***************************************************************************)
(* perform_local_reconciliation                                            *)
(***************************************************************************)
\* Mutant: the amount is printed in whole dollars, ":,.0f"
FmtWhole(x) ==
    LET a == AmountAbs(x)
        rounded == 100 * ((a[1] + 50) \div 100)
    IN  IF x[1] < 0 THEN -rounded ELSE rounded

\* f"{x:,.2f}": the amount in hundredths, the rest rounded half to even
Fmt2f(x) ==
    LET a == AmountAbs(x)
        rounded == IF 2 * a[2] < Tolerance THEN a[1]
                   ELSE IF 2 * a[2] > Tolerance THEN a[1] + 1
                   ELSE IF a[1] % 2 = 0 THEN a[1] ELSE a[1] + 1
    IN  IF x[1] < 0 THEN -rounded ELSE rounded

\* Amounts below SmallAmount hundredths are divided as plain integers
SmallAmount == 20

\* f"{difference / larger * 100:.1f}": the percentage in tenths of a percent,
\* for larger > 0
PercentTenths(difference, larger) ==
    IF difference[1] < SmallAmount /\ larger[1] < SmallAmount
    THEN RoundHalfEven(1000 * (difference[1] * Tolerance + difference[2]),
                       larger[1] * Tolerance + larger[2])
    ELSE LET n == AmountTimes(1000, difference)
             lo == (1000 * difference[1]) \div (larger[1] + 1)
             hi == (1000 * (difference[1] + 1)) \div Max(larger[1], 1)
             q == CHOOSE k \in lo..hi : /\ ~AmountLess(n, AmountTimes(k, larger))
                                        /\ AmountLess(n, AmountTimes(k + 1, larger))
             twice == AmountTimes(2, AmountSub(n, AmountTimes(q, larger)))
         IN  IF AmountLess(twice, larger) THEN q
             ELSE IF AmountLess(larger, twice) THEN q + 1
             ELSE IF q % 2 = 0 THEN q ELSE q + 1

\* The strings of the Date columns and the instants pd.to_datetime gives them,
\* in hours; a string outside the table does not parse.
DateParse ==
    ("2024-01-01 08:00" :> 32) @@ ("2024-01-01 17:00" :> 41) @@ ("2024-01-02 08:00" :> 56)

\* pd.to_datetime(series) raises on a string it cannot parse; None becomes NaT
to_datetime_raises(series) ==
    \E i \in 1..Len(series) : series[i] # <<>> /\ series[i][1] \notin DOMAIN DateParse

to_datetime(series) ==
    [i \in 1..Len(series) |-> IF series[i] = <<>> THEN <<>> ELSE <<DateParse[series[i][1]]>>]

NotNaT(dates) == {dates[i][1] : i \in {j \in 1..Len(dates) : dates[j] # <<>>}}

\* dates.min() and dates.max() skip NaT; with nothing left they are NaT, and
\* NaT.strftime raises ValueError
strftime_raises(dates) == NotNaT(dates) = {}

dates_min(dates) == CHOOSE t \in NotNaT(dates) : \A u \in NotNaT(dates) : t <= u

dates_max(dates) == CHOOSE t \in NotNaT(dates) : \A u \in NotNaT(dates) : t >= u

\* strftime('%Y-%m-%d'): the calendar day of the instant, the time of day dropped
strftime_Ymd(t) == t \div 24

\* Mutant: the row counts are compared with > instead of !=
RowCountIssuesOnlyExcess(A, B) ==
    IF len(A) > len(B)
    THEN <<Val("row_count", "", "", len(A), len(B), 0, 0)>>
    ELSE <<>>

RowCountIssues(A, B) ==
    IF len(A) # len(B)
    THEN <<Val("row_count", "", "", len(A), len(B), 0, 0)>>
    ELSE <<>>

\* Mutant: the column names are compared as sets
ColumnIssuesAsSets(A, B) ==
    IF {A.columns[i] : i \in 1..Len(A.columns)} # {B.columns[i] : i \in 1..Len(B.columns)}
    THEN <<Val("columns", "", "", 0, 0, 0, 0)>>
    ELSE <<>>

ColumnIssues(A, B) ==
    IF A.columns # B.columns
    THEN <<Val("columns", "", "", 0, 0, 0, 0)>>
    ELSE <<>>

\* Mutant: the tolerance is compared with >= instead of >
TotalsDifferInclusive(excel_sum, sql_sum) ==
    ~AmountLess(AmountAbs(AmountSub(excel_sum, sql_sum)), Amount(0, Tolerance))

TotalsDiffer(excel_sum, sql_sum) ==
    AmountLess(Amount(0, Tolerance), AmountAbs(AmountSub(excel_sum, sql_sum)))

TotalsIssues(col, excel_sum, sql_sum) ==
    IF TotalsDiffer(excel_sum, sql_sum)
    THEN LET difference == AmountAbs(AmountSub(excel_sum, sql_sum))
             larger == AmountMax(AmountAbs(excel_sum), AmountAbs(sql_sum))
             percentage_tenths ==
                 IF AmountLess(Amount(0, 0), larger)
                 THEN PercentTenths(difference, larger) ELSE 0
         IN  <<Val("totals", "", col, Fmt2f(excel_sum), Fmt2f(sql_sum),
                   Fmt2f(difference), percentage_tenths)>>
    ELSE <<>>

\* Mutant: nulls are reported only when the first dataset has more of them
NullIssuesOnlyExcess(col, excel_nulls, sql_nulls) ==
    IF excel_nulls > sql_nulls
    THEN <<Val("nulls", "", col, excel_nulls, sql_nulls, 0, 0)>>
    ELSE <<>>

NullIssues(col, excel_nulls, sql_nulls) ==
    IF excel_nulls # sql_nulls
    THEN <<Val("nulls", "", col, excel_nulls, sql_nulls, 0, 0)>>
    ELSE <<>>

\* Mutant: the null counts of a column are compared before its sums
OneColumnIssuesNullsFirst(A, B, col) ==
    IF HasColumn(B, col)
    THEN NullIssues(col, isnull_sum(Series(A, col)), isnull_sum(Series(B, col)))
         \o TotalsIssues(col, ColumnSum(A, col), ColumnSum(B, col))
    ELSE <<>>

\* The body of the loop over numeric_cols for one column
OneColumnIssues(A, B, col) ==
    IF HasColumn(B, col)
    THEN TotalsIssues(col, ColumnSum(A, col), ColumnSum(B, col))
         \o NullIssues(col, isnull_sum(Series(A, col)), isnull_sum(Series(B, col)))
    ELSE <<>>

RECURSIVE PerColumnIssues(_, _, _)
PerColumnIssues(A, B, cols) ==
    IF cols = <<>> THEN <<>>
    ELSE OneColumnIssues(A, B, Head(cols)) \o PerColumnIssues(A, B, Tail(cols))

\* The loop raises TypeError at the first shared column whose sum in B is no number
PerColumnRaises(A, B) ==
    \E i \in 1..Len(numeric_cols(A)) :
        /\ HasColumn(B, numeric_cols(A)[i])
        /\ ColumnSumRaises(B, numeric_cols(A)[i])

DuplicateIssues(A, B) ==
    LET excel_dupes == duplicated_sum(A)
        sql_dupes == duplicated_sum(B)
    IN  IF excel_dupes > 0 \/ sql_dupes > 0
        THEN <<Val("duplicates", "", "", excel_dupes, sql_dupes, 0, 0)>>
        ELSE <<>>

DateCheckApplies(A, B) == HasColumn(A, "Date") /\ HasColumn(B, "Date")

DateCheckFails(A, B) ==
    \/ to_datetime_raises(Series(A, "Date"))
    \/ to_datetime_raises(Series(B, "Date"))
    \/ strftime_raises(to_datetime(Series(A, "Date")))
    \/ strftime_raises(to_datetime(Series(B, "Date")))

\* Mutant: a date check that fails is passed over in silence
DateIssuesSilent(A, B) ==
    IF DateCheckApplies(A, B) /\ ~DateCheckFails(A, B)
    THEN LET excel_dates == to_datetime(Series(A, "Date"))
             sql_dates == to_datetime(Series(B, "Date"))
             excel_range == <<strftime_Ymd(dates_min(excel_dates)),
                              strftime_Ymd(dates_max(excel_dates))>>
             sql_range == <<strftime_Ymd(dates_min(sql_dates)),
                            strftime_Ymd(dates_max(sql_dates))>>
         IN  IF excel_range # sql_range
             THEN <<Val("date_ranges", "", "", excel_range[1], excel_range[2],
                        sql_range[1], sql_range[2])>>
             ELSE <<>>
    ELSE <<>>

DateIssues(A, B) ==
    IF DateCheckApplies(A, B)
    THEN IF DateCheckFails(A, B)
         THEN <<Val("date_unparsed", "", "", 0, 0, 0, 0)>>
         ELSE LET excel_dates == to_datetime(Series(A, "Date"))
                  sql_dates == to_datetime(Series(B, "Date"))
                  excel_range == <<strftime_Ymd(dates_min(excel_dates)),
                                   strftime_Ymd(dates_max(excel_dates))>>
                  sql_range == <<strftime_Ymd(dates_min(sql_dates)),
                                 strftime_Ymd(dates_max(sql_dates))>>
              IN  IF excel_range # sql_range
                  THEN <<Val("date_ranges", "", "", excel_range[1], excel_range[2],
                             sql_range[1], sql_range[2])>>
                  ELSE <<>>
    ELSE <<>>

NoDiscrepancies == Val("no_discrepancies", "", "", 0, 0, 0, 0)

TotalReconciled(n) == Val("total_reconciled", "", "", n, 0, 0, 0)

\* Mutant: the informational entries are never appended
SummaryIssuesNever(A, B, found) == found

\* Mutant: only the marker is appended, without the count of records
SummaryIssuesMarkerOnly(A, B, found) ==
    IF found = <<>> THEN <<NoDiscrepancies>> ELSE found

\* Mutant: the informational entries are appended whatever was found
SummaryIssuesAlways(A, B, found) ==
    found \o <<NoDiscrepancies, TotalReconciled(Min(len(A), len(B)))>>

SummaryIssues(A, B, found) ==
    IF found = <<>>
    THEN <<NoDiscrepancies, TotalReconciled(Min(len(A), len(B)))>>
    ELSE found

perform_local_reconciliation(A, B) ==
    LET found == RowCountIssues(A, B) \o ColumnIssues(A, B)
                 \o PerColumnIssues(A, B, numeric_cols(A))
                 \o DuplicateIssues(A, B) \o DateIssues(A, B)
    IN  [raised |-> PerColumnRaises(A, B),
         results |-> [total_excel_rows |-> len(A),
                      total_sql_rows |-> len(B),
                      row_difference |-> len(A) - len(B),
                      potential_issues |-> SummaryIssues(A, B, found)]]

(***************************************************************************)
(* Texts, character by character                                           *)
(***************************************************************************)
LowerLetters ==
    <<"a", "b", "c", "d", "e", "f", "g", "h", "i", "j", "k", "l", "m", "n",
      "o", "p", "q", "r", "s", "t", "u", "v", "w", "x", "y", "z">>
UpperLetters ==
    <<"A", "B", "C", "D", "E", "F", "G", "H", "I", "J", "K", "L", "M", "N",
      "O", "P", "Q", "R", "S", "T", "U", "V", "W", "X", "Y", "Z">>

LetterIndex(c, letters) == CHOOSE i \in 1..Len(letters) : letters[i] = c

LowerSet == {LowerLetters[i] : i \in 1..Len(LowerLetters)}

UpperSet == {UpperLetters[i] : i \in 1..Len(UpperLetters)}

\* The upper-case form of each lower-case letter, and the converse
UpperOf == [c \in LowerSet |-> UpperLetters[LetterIndex(c, LowerLetters)]]

LowerOf == [c \in UpperSet |-> LowerLetters[LetterIndex(c, UpperLetters)]]

IsLowerChar(c) == c \in LowerSet

IsUpperChar(c) == c \in UpperSet

IsCased(c) == IsLowerChar(c) \/ IsUpperChar(c)

UpperChar(c) == IF IsLowerChar(c) THEN UpperOf[c] ELSE c

LowerChar(c) == IF IsUpperChar(c) THEN LowerOf[c] ELSE c

\* str.lower()
lower(text) == [i \in 1..Len(text) |-> LowerChar(text[i])]

\* Mutant: str.capitalize() in place of str.title()
capitalize(text) ==
    [i \in 1..Len(text) |-> IF i = 1 THEN UpperChar(text[i]) ELSE LowerChar(text[i])]

\* str.title(): a cased character is upper-cased when the character before it
\* is not cased (or there is none) and lower-cased otherwise; any other
\* character is kept
title(text) ==
    [i \in 1..Len(text) |->
        IF ~IsCased(text[i]) THEN text[i]
        ELSE IF i > 1 /\ IsCased(text[i - 1]) THEN LowerChar(text[i])
        ELSE UpperChar(text[i])]

\* needle in text
Contains(text, needle) ==
    \E k \in 0..(Len(text) - Len(needle)) :
        \A j \in 1..Len(needle) : text[k + j] = needle[j]

TotalWord ==
    <<"t", "o", "t", "a", "l">>

StatisticalAnalysis ==
    <<"S", "t", "a", "t", "i", "s", "t", "i", "c", "a", "l", " ", "A", "n",
      "a", "l", "y", "s", "i", "s">>

\* The column names of the model, spelled out
ColumnChars(col) ==
    CASE col = "debit" -> <<"d", "e", "b", "i", "t">>
      [] col = "credit" -> <<"c", "r", "e", "d", "i", "t">>
      [] col = "Date" -> <<"D", "a", "t", "e">>
      [] col = "total_fee" -> <<"t", "o", "t", "a", "l", "_", "f", "e", "e">>
      [] OTHER -> <<>>

\* The issue strings of the analyzer. An interpolated number is written #
\* and the check-mark emoji *: neither holds a letter.
RowCountText ==
    <<"R", "o", "w", " ", "c", "o", "u", "n", "t", " ", "m", "i", "s", "m",
      "a", "t", "c", "h", ":", " ", "E", "x", "c", "e", "l", " ", "h", "a",
      "s", " ", "#", ",", " ", "S", "Q", "L", " ", "h", "a", "s", " ", "#">>

ColumnsText ==
    <<"C", "o", "l", "u", "m", "n", " ", "s", "t", "r", "u", "c", "t", "u",
      "r", "e", " ", "d", "i", "f", "f", "e", "r", "s", " ", "b", "e", "t",
      "w", "e", "e", "n", " ", "f", "i", "l", "e", "s">>

TotalsText ==
    <<" ", "t", "o", "t", "a", "l", "s", " ", "d", "i", "f", "f", "e", "r",
      ":", " ", "E", "x", "c", "e", "l", "=", "$", "#", ",", " ", "S", "Q",
      "L", "=", "$", "#", " ", "(", "D", "i", "f", "f", "e", "r", "e", "n",
      "c", "e", ":", " ", "$", "#", ",", " ", "#", "%", ")">>

NullsText ==
    <<" ", "h", "a", "s", " ", "d", "i", "f", "f", "e", "r", "e", "n", "t",
      " ", "n", "u", "l", "l", " ", "c", "o", "u", "n", "t", "s", ":", " ",
      "E", "x", "c", "e", "l", "=", "#", ",", " ", "S", "Q", "L", "=", "#">>

DuplicatesText ==
    <<"D", "u", "p", "l", "i", "c", "a", "t", "e", " ", "r", "e", "c", "o",
      "r", "d", "s", " ", "f", "o", "u", "n", "d", " ", "-", " ", "E", "x",
      "c", "e", "l", ":", " ", "#", ",", " ", "S", "Q", "L", ":", " ", "#">>

DateRangesText ==
    <<"D", "a", "t", "e", " ", "r", "a", "n", "g", "e", "s", " ", "d", "i",
      "f", "f", "e", "r", " ", "-", " ", "E", "x", "c", "e", "l", ":", " ",
      "#", " ", "t", "o", " ", "#", ",", " ", "S", "Q", "L", ":", " ", "#",
      " ", "t", "o", " ", "#">>

DateUnparsedText ==
    <<"U", "n", "a", "b", "l", "e", " ", "t", "o", " ", "p", "a", "r", "s",
      "e", " ", "d", "a", "t", "e", " ", "f", "i", "e", "l", "d", "s", " ",
      "f", "o", "r", " ", "c", "o", "m", "p", "a", "r", "i", "s", "o", "n">>

NoDiscrepanciesText ==
    <<"*", " ", "N", "o", " ", "m", "a", "j", "o", "r", " ", "d", "i", "s",
      "c", "r", "e", "p", "a", "n", "c", "i", "e", "s", " ", "d", "e", "t",
      "e", "c", "t", "e", "d", " ", "i", "n", " ", "s", "t", "a", "t", "i",
      "s", "t", "i", "c", "a", "l", " ", "a", "n", "a", "l", "y", "s", "i",
      "s">>

TotalReconciledText ==
    <<"*", " ", "T", "o", "t", "a", "l", " ", "r", "e", "c", "o", "r", "d",
      "s", " ", "r", "e", "c", "o", "n", "c", "i", "l", "e", "d", ":", " ",
      "#">>

\* The characters of a value that is a string
Text(v) ==
    CASE v.kind = "row_count" -> RowCountText
      [] v.kind = "columns" -> ColumnsText
      [] v.kind = "totals" -> ColumnChars(v.col) \o TotalsText
      [] v.kind = "nulls" -> ColumnChars(v.col) \o NullsText
      [] v.kind = "duplicates" -> DuplicatesText
      [] v.kind = "date_ranges" -> DateRangesText
      [] v.kind = "date_unparsed" -> DateUnparsedText
      [] v.kind = "no_discrepancies" -> NoDiscrepanciesText
      [] v.kind = "total_reconciled" -> TotalReconciledText
      [] OTHER -> <<>>

(***************************************************************************)
(* Mismatch records of the AI collaborator                                 *)
(*                                                                         *)
(* A record is a dict; each key is absent (<<>>) or holds a value (<<v>>). *)
(* transaction_id, reason and error hold a Python value; discrepancy_type  *)
(* holds [kind, chars]; excel_data and sql_data hold [kind, s, debit,      *)
(* credit], a string, None or a dict whose keys debit and credit are       *)
(* absent or hold the text of their value.                                 *)
(***************************************************************************)
Mismatch(tid, dtype, reason, excel, sql, error) ==
    [transaction_id |-> tid, discrepancy_type |-> dtype, reason |-> reason,
     excel_data |-> excel, sql_data |-> sql, error |-> error]

TypeStr(chars) == [kind |-> "str", chars |-> chars]

TypeNone == [kind |-> "None", chars |-> <<>>]

DataStr(s) == [kind |-> "str", s |-> s, debit |-> <<>>, credit |-> <<>>]

DataNone == [kind |-> "None", s |-> "", debit |-> <<>>, credit |-> <<>>]

DataDict(debit, credit) == [kind |-> "dict", s |-> "", debit |-> debit, credit |-> credit]

\* "error" in mismatch
HasError(mismatch) == mismatch.error # <<>>

\* dict.get(key, default)
Get(maybe, default) == IF maybe = <<>> THEN default ELSE maybe[1]

(***************************************************************************)
(* generate_reconciliation_report                                          *)
(*                                                                         *)
(* A report row holds the Transaction ID and the Description as Python     *)
(* values, the Discrepancy Type as characters, and the Excel Data and SQL  *)
(* Data as the pieces whose concatenation is the string.                   *)
(***************************************************************************)
ReportRow(tid, dtype, description, excel, sql, impact) ==
    [TransactionID |-> tid, DiscrepancyType |-> dtype, Description |-> description,
     ExcelData |-> excel, SQLData |-> sql, Impact |-> impact]

\* Mutant: the word is looked for in the text as it stands
StatisticalImpactCaseSensitive(issue) ==
    IF Contains(Text(issue), TotalWord) THEN "High" ELSE "Medium"

StatisticalImpact(issue) ==
    IF Contains(lower(Text(issue)), TotalWord) THEN "High" ELSE "Medium"

StatisticalRow(issue) ==
    ReportRow(Str("Statistical"), StatisticalAnalysis, issue,
              <<"Aggregate data">>, <<"Aggregate data">>, StatisticalImpact(issue))

\* Mutant: the last issue is left out
StatisticalRowsButLast(issues) ==
    [i \in 1..(Len(issues) - 1) |-> StatisticalRow(issues[i])]

\* Mutant: the informational entries get no row
StatisticalRowsIssuesOnly(issues) ==
    LET found == SelectSeq(issues, LAMBDA issue :
                     issue.kind \notin {"no_discrepancies", "total_reconciled"})
    IN  [i \in 1..Len(found) |-> StatisticalRow(found[i])]

StatisticalRows(issues) == [i \in 1..Len(issues) |-> StatisticalRow(issues[i])]

\* The string built from excel_data / sql_data
DataString(data) ==
    IF data.kind = "dict"
    THEN <<"Amount: ", Get(data.debit, "0"), " / ", Get(data.credit, "0")>>
    ELSE IF data.kind = "None" THEN <<"None">>
    ELSE <<data.s>>

\* discrepancy_type.title() raises AttributeError on a value that is no string
TitleRaises(mismatch) == Get(mismatch.discrepancy_type, TypeStr(<<>>)).kind # "str"

UnknownChars == <<"U", "n", "k", "n", "o", "w", "n">>

MismatchRow(mismatch) ==
    LET transaction_id == Get(mismatch.transaction_id, Str("Unknown"))
        discrepancy_type == Get(mismatch.discrepancy_type, TypeStr(UnknownChars))
        reason == Get(mismatch.reason, Str("No description"))
        excel_data == Get(mismatch.excel_data, DataStr(""))
        sql_data == Get(mismatch.sql_data, DataStr(""))
    IN  ReportRow(transaction_id, title(discrepancy_type.chars), reason,
                  DataString(excel_data), DataString(sql_data), "High")

\* The condition of line 217
AIResultsUsed(ai) == ai # <<>> /\ ~(Len(ai) = 1 /\ HasError(ai[1]))

\* Mutant: the test of line 219 is missing
RecordUsedAlways(mismatch) == TRUE

\* The test of line 219
RecordUsed(mismatch) == ~HasError(mismatch)

RECURSIVE MismatchRows(_)
MismatchRows(ai) ==
    IF ai = <<>> THEN <<>>
    ELSE (IF RecordUsed(Head(ai)) THEN <<MismatchRow(Head(ai))>> ELSE <<>>)
         \o MismatchRows(Tail(ai))

AIRows(ai) == IF AIResultsUsed(ai) THEN MismatchRows(ai) ELSE <<>>

AIRaises(ai) ==
    /\ AIResultsUsed(ai)
    /\ \E i \in 1..Len(ai) : RecordUsed(ai[i]) /\ TitleRaises(ai[i])

\* Mutant: the AI rows are put before the statistical rows
generate_report_ai_first(ai, local_analysis) ==
    [raised |-> AIRaises(ai),
     rows |-> AIRows(ai) \o StatisticalRows(local_analysis.potential_issues)]

generate_reconciliation_report(ai, local_analysis) ==
    [raised |-> AIRaises(ai),
     rows |-> StatisticalRows(local_analysis.potential_issues) \o AIRows(ai)]

(***************************************************************************)
(* The inputs of the model                                                 *)
(***************************************************************************)
\* One column of amounts around the tolerance
AmountCells == {<<0>>, <<Tolerance>>, <<Tolerance + 1>>, <<>>}

AmountFrames ==
    {DataFrame(<<"debit">>, <<"float64">>, rows) :
        rows \in SeqsUpTo(Product(<<AmountCells>>), MaxRows)}

\* One column of dates: two instants of one day, a later day, a string that is
\* no date, and None
DateCells ==
    {<<"2024-01-01 08:00">>, <<"2024-01-01 17:00">>, <<"2024-01-02 08:00">>,
     <<"not a date">>, <<>>}

DateFrames ==
    {DataFrame(<<"Date">>, <<"object">>, rows) :
        rows \in SeqsUpTo(Product(<<DateCells>>), MaxRows)}

\* One column of dates under the name "date", as generate_data.py writes it
LowerDateFrames ==
    {DataFrame(<<"date">>, <<"object">>, rows) :
        rows \in SeqsUpTo(Product(<<DateCells>>), 1)}

\* Differing column sets, orders and dtypes
Layouts ==
    {<< <<>>, <<>> >>,
     << <<"debit">>, <<"float64">> >>,
     << <<"debit">>, <<"object">> >>,
     << <<"total_fee">>, <<"float64">> >>,
     << <<"debit", "credit">>, <<"float64", "int64">> >>,
     << <<"credit", "debit">>, <<"int64", "float64">> >>,
     << <<"debit", "Date">>, <<"float64", "object">> >>}

LayoutCells(col, dtype) ==
    IF col = "Date" THEN {<<"2024-01-01 08:00">>, <<"2024-01-02 08:00">>}
    ELSE IF dtype = "float64" THEN {<<3 * Tolerance>>, <<>>}
    ELSE IF dtype = "int64" THEN {<<3 * Tolerance>>}
    ELSE {<<"n/a">>, <<>>}

LayoutRows(layout) ==
    Product([i \in 1..Len(layout[1]) |-> LayoutCells(layout[1][i], layout[2][i])])

LayoutFrames ==
    UNION {{DataFrame(layout[1], layout[2], rows) :
                rows \in SeqsUpTo(LayoutRows(layout),
                                  IF layout[1] = <<>> THEN 0 ELSE MaxRows)} :
           layout \in Layouts}

\* Files of two numeric columns and a Date column, the columns of the second
\* file in another order
ThreeColumns == << <<"debit", "credit", "Date">>, <<"float64", "int64", "object">> >>

ThreeColumnsReordered == << <<"Date", "credit", "debit">>, <<"object", "int64", "float64">> >>

FramesOf(layout) ==
    {DataFrame(layout[1], layout[2], rows) : rows \in SeqsUpTo(LayoutRows(layout), MaxRows)}

AmountDifference ==
    <<"a", "m", "o", "u", "n", "t", "_", "d", "i", "f", "f", "e", "r", "e",
      "n", "c", "e">>

MissingRow ==
    <<"m", "i", "s", "s", "i", "n", "g", "_", "r", "o", "w">>

\* The records of src/full_test.py, an error marker as send_to_openai builds
\* it, and records of other shapes the collaborator may answer with; the last
\* one repeats a statistical finding word for word
RecordPool ==
    {Mismatch(<<Str("123")>>, <<TypeStr(AmountDifference)>>,
              <<Str("Debit amount differs by $0.01")>>, <<>>, <<>>, <<>>),
     Mismatch(<<Str("456")>>, <<TypeStr(MissingRow)>>,
              <<Str("Transaction missing in SQL dataset")>>,
              <<DataStr("Row exists")>>, <<DataStr("Row missing")>>, <<>>),
     Mismatch(<<>>, <<>>, <<>>, <<>>, <<>>, <<Str("No valid JSON found in AI response")>>),
     Mismatch(<<Str("123")>>, <<TypeStr(AmountDifference)>>, <<>>, <<>>, <<>>,
              <<Str("x")>>),
     Mismatch(<<>>, <<>>, <<>>, <<>>, <<>>, <<>>),
     Mismatch(<<Str("789")>>, <<TypeNone>>, <<>>, <<>>, <<>>, <<>>),
     Mismatch(<<IntVal(7)>>, <<>>, <<None>>, <<DataDict(<<"1000.0">>, <<"0.0">>)>>,
              <<DataDict(<<>>, <<>>)>>, <<>>),
     Mismatch(<<Str("Statistical")>>, <<TypeStr(lower(StatisticalAnalysis))>>,
              <<TotalReconciled(0)>>, <<DataStr("Aggregate data")>>,
              <<DataStr("Aggregate data")>>, <<>>)}

\* Every subset of the fields absent, present, or present with None
AllRecords ==
    {Mismatch(tid, dtype, reason, excel, sql, error) :
        tid \in {<<>>, <<Str("123")>>, <<None>>},
        dtype \in {<<>>, <<TypeStr(AmountDifference)>>, <<TypeNone>>},
        reason \in {<<>>, <<Str("Debit amount differs by $0.01")>>, <<None>>},
        excel \in {<<>>, <<DataStr("Debit: 1000.00")>>, <<DataDict(<<"1000.0">>, <<>>)>>},
        sql \in {<<>>, <<DataStr("Debit: 1000.01")>>, <<DataNone>>},
        error \in {<<>>, <<Str("x")>>}}

(***************************************************************************)
(* The AI step of the application                                          *)
(***************************************************************************)
\* The slider "Sample Size for AI Analysis"
SliderMin == 50

SliderMax == 500

SliderDefault == 100

\* The sample size send_to_openai passes to prepare_data_for_ai
AISampleSize == 100

\* DataFrame.head(n)
head(df, n) == DataFrame(df.columns, df.dtypes, SubSeq(df.rows, 1, Min(n, Len(df.rows))))

\* What prepare_data_for_ai puts into the prompt: the two samples and the
\* two row counts
prepare_data_for_ai(df1, df2, n) ==
    [sent |-> TRUE, excel |-> head(df1, n).rows, sql |-> head(df2, n).rows,
     excel_total |-> len(df1), sql_total |-> len(df2)]

\* No prompt was built
NoSample == [sent |-> FALSE, excel |-> <<>>, sql |-> <<>>, excel_total |-> 0, sql_total |-> 0]

\* The marker send_to_openai returns when the client or the call fails
ClientError == Mismatch(<<>>, <<>>, <<>>, <<>>, <<>>, <<Str("Connection error.")>>)

\* A record that speaks of an error without being an error marker
RoundingError ==
    Mismatch(<<Str("456")>>, <<TypeStr(AmountDifference)>>,
             <<Str("Rounding error in SQL export")>>, <<>>, <<>>, <<>>)

\* The strings of the records whose lower-cased text contains "error"
ErrorStrings == {"Rounding error in SQL export", "Connection error."}

\* "error" in str(mismatch).lower(): the key "error" or a value with the word
MentionsError(mismatch) ==
    \/ HasError(mismatch)
    \/ mismatch.reason # <<>> /\ mismatch.reason[1].s \in ErrorStrings
    \/ mismatch.transaction_id # <<>> /\ mismatch.transaction_id[1].s \in ErrorStrings

\* The message the application shows for what send_to_openai returned
AIMessage(response) ==
    IF response # <<>>
    THEN IF MentionsError(response[1]) THEN "failed" ELSE "complete"
    ELSE "empty"

\* What send_to_openai can return after a call that was answered
AIResponses == SeqsUpTo(RecordPool \cup {RoundingError}, MaxAI)

\* What the application shows for the report: the table with its downloads,
\* or the message "No discrepancies found"
DisplayBranch(report) == IF report # <<>> THEN "report" ELSE "no_discrepancies"

\* The datasets of the runs of the application
AppFrames ==
    {df \in AmountFrames : len(df) <= 1}
        \cup {DataFrame(<<"debit">>, <<"object">>, << << <<"n/a">> >> >>),
              DataFrame(<<"debit">>, <<"float64">>, << << <<0>> >>, << <<0>> >> >>)}

\* A file of n rows, each with its own amount
LongFrame(n) == DataFrame(<<"debit">>, <<"int64">>, [i \in 1..n |-> << <<i>> >>])

LongFrames == {LongFrame(ShortFileRows), LongFrame(LongFileRows)}

\* Whole dollars in the unit of the cells
Dollars(n) == n * 100 * Tolerance

\* The end-to-end scenario: three rows of one float64 column debit
EndToEndCells ==
    {<<Dollars(50)>>, <<Dollars(100)>>, <<Dollars(150)>>,
     <<Dollars(100) + 2 * Tolerance>>, <<Dollars(150) + 2 * Tolerance>>}

\* The three-row files whose debit column sums to the given hundredths
EndToEndFrames(hundredths) ==
    {DataFrame(<<"debit">>, <<"float64">>, <<<<a>>, <<b>>, <<c>>>>) :
        <<a, b, c>> \in {t \in EndToEndCells \X EndToEndCells \X EndToEndCells :
                            NumericSum(<<t[1], t[2], t[3]>>) = Amount(hundredths, 0)}}

(***************************************************************************)
(* The page of the application: session state, uploads, data selection     *)
(***************************************************************************)
\* st.session_state after the initialisation of lines 44 to 49; a dataset
\* is <<>> for None and <<df>> otherwise
InitialSession ==
    [use_sample_data |-> FALSE, sample_df_excel |-> <<>>, sample_df_sql |-> <<>>]

\* An uploader without a file, and one with a file that read_csv turned into
\* a dataset or failed on
NoFile == [name |-> "", df |-> <<>>]

File(df) == [name |-> "gl.csv", df |-> df]

\* The end of a script run: the datasets selected for the comparison, the
\* offer of "Start Reconciliation", the message of the sample-data button,
\* and the TypeError of len(None) in the sample-data branch
Page(session, files, message) ==
    LET final_df_excel == IF session.use_sample_data THEN session.sample_df_excel
                          ELSE files.excel_file.df
        final_df_sql == IF session.use_sample_data THEN session.sample_df_sql
                        ELSE files.sql_file.df
        raised == session.use_sample_data /\ (final_df_excel = <<>> \/ final_df_sql = <<>>)
    IN  [final_df_excel |-> final_df_excel, final_df_sql |-> final_df_sql,
         offered |-> ~raised /\ final_df_excel # <<>> /\ final_df_sql # <<>>,
         message |-> message, raised |-> raised]

\* No script run has drawn the page
NoPage ==
    [final_df_excel |-> <<>>, final_df_sql |-> <<>>, offered |-> FALSE,
     message |-> "", raised |-> FALSE]

\* The datasets the files of the page can hold
UiFrames ==
    {DataFrame(<<"debit">>, <<"float64">>, rows) :
        rows \in {<<>>, << << <<0>> >> >>, << << <<Tolerance>> >> >>}}

\* What an uploader can hold, and what a read of a sample file can give
UploadChoices == {NoFile, File(<<>>)} \cup {File(<<df>>) : df \in UiFrames}

SampleReads == {<<>>} \cup {<<df>> : df \in UiFrames}

\* local_results and report_df before they are assigned
NotComputed ==
    [total_excel_rows |-> 0, total_sql_rows |-> 0, row_difference |-> 0,
     potential_issues |-> <<>>]

\* The two functions called directly, as full_test.py calls them: no key, no
\* slider, no AI call
InitFrames(frames, lists) ==
    /\ df_excel \in frames
    /\ df_sql \in frames
    /\ ai_mismatches \in lists
    /\ local_results = NotComputed
    /\ report_df = <<>>
    /\ pc = "loaded"
    /\ api_key = FALSE
    /\ sample_size = SliderDefault
    /\ ai_sample = NoSample
    /\ ai_message = "direct"
    /\ session_state = InitialSession
    /\ uploads = [excel_file |-> NoFile, sql_file |-> NoFile]
    /\ page = NoPage

Init ==
    \/ InitFrames(AmountFrames, {<<>>})
    \/ InitFrames(DateFrames, {<<>>})
    \/ InitFrames(LayoutFrames, {<<>>})
    \/ InitFrames({df \in AmountFrames : len(df) <= 1}, SeqsUpTo(RecordPool, MaxAI))
    \/ InitFrames({DataFrame(<<"debit">>, <<"float64">>, <<>>)},
                  {<<mismatch>> : mismatch \in AllRecords})
    \/ /\ InitFrames(EndToEndFrames(30000) \cup EndToEndFrames(30002), {<<>>})
       /\ df_excel \in EndToEndFrames(30000)
       /\ df_sql \in EndToEndFrames(30002)
    \/ /\ InitFrames(FramesOf(ThreeColumns) \cup FramesOf(ThreeColumnsReordered), {<<>>})
       /\ df_excel \in FramesOf(ThreeColumns)
       /\ df_sql \in FramesOf(ThreeColumnsReordered)
    \/ /\ InitFrames(DateFrames \cup LowerDateFrames, {<<>>})
       /\ len(df_excel) <= 1
       /\ df_sql \in LowerDateFrames

(***************************************************************************)
(* The steps of a reconciliation run (src/src/app.py, lines 240 to 270)    *)
(***************************************************************************)
PerformLocalReconciliation ==
    /\ pc = "loaded"
    /\ LET r == perform_local_reconciliation(df_excel, df_sql)
       IN  IF r.raised
           THEN pc' = "analysis_raised" /\ UNCHANGED local_results
           ELSE pc' = "analyzed" /\ local_results' = r.results
    /\ UNCHANGED <<df_excel, df_sql, ai_mismatches, report_df,
                   api_key, sample_size, ai_sample, ai_message,
                   session_state, uploads, page>>

\* Step 2 of the run: the AI analysis, or its skipping
AIStep ==
    /\ pc = "analyzed"
    /\ ai_message = "pending"
    /\ \/ /\ ~api_key
          /\ ai_mismatches' = <<>>
          /\ ai_message' = "no_key"
          /\ UNCHANGED ai_sample
       \/ /\ api_key
          /\ \E response \in AIResponses :
                 /\ ai_mismatches' = response
                 /\ ai_message' = AIMessage(response)
          /\ ai_sample' = prepare_data_for_ai(df_excel, df_sql, AISampleSize)
       \/ /\ api_key
          /\ ai_mismatches' = <<ClientError>>
          /\ ai_message' = AIMessage(<<ClientError>>)
          /\ UNCHANGED ai_sample
       \/ /\ api_key
          /\ ai_mismatches' = <<>>
          /\ ai_message' = "error"
          /\ ai_sample' \in {NoSample, prepare_data_for_ai(df_excel, df_sql, AISampleSize)}
    /\ UNCHANGED <<df_excel, df_sql, local_results, report_df, pc, api_key, sample_size,
                   session_state, uploads, page>>

\* Mutant: the report is built while consuming the list it was given
GenerateReportPopping ==
    /\ pc = "analyzed"
    /\ ai_message # "pending"
    /\ LET r == generate_reconciliation_report(ai_mismatches, local_results)
       IN  IF r.raised
           THEN pc' = "report_raised" /\ UNCHANGED report_df
           ELSE pc' = "reported" /\ report_df' = r.rows
    /\ ai_mismatches' = (IF ai_mismatches = <<>> THEN <<>> ELSE Tail(ai_mismatches))
    /\ UNCHANGED <<df_excel, df_sql, local_results,
                   api_key, sample_size, ai_sample, ai_message,
                   session_state, uploads, page>>

GenerateReport ==
    /\ pc = "analyzed"
    /\ ai_message # "pending"
    /\ LET r == generate_reconciliation_report(ai_mismatches, local_results)
       IN  IF r.raised
           THEN pc' = "report_raised" /\ UNCHANGED report_df
           ELSE pc' = "reported" /\ report_df' = r.rows
    /\ UNCHANGED <<df_excel, df_sql, ai_mismatches, local_results,
                   api_key, sample_size, ai_sample, ai_message,
                   session_state, uploads, page>>

Next == PerformLocalReconciliation \/ GenerateReport

Spec == Init /\ [][Next]_vars

\* A press of "Start Reconciliation" in the application: the two datasets
\* are loaded, the key is entered or not, the slider stands at a value
AppInitFrames(frames, keys, sizes) ==
    /\ df_excel \in frames
    /\ df_sql \in frames
    /\ ai_mismatches = <<>>
    /\ local_results = NotComputed
    /\ report_df = <<>>
    /\ pc = "loaded"
    /\ api_key \in keys
    /\ sample_size \in sizes
    /\ ai_sample = NoSample
    /\ ai_message = "pending"
    /\ session_state = InitialSession
    /\ uploads = [excel_file |-> File(<<df_excel>>), sql_file |-> File(<<df_sql>>)]
    /\ page = Page(session_state, uploads, "")

AppInit ==
    \/ AppInitFrames(AppFrames, BOOLEAN, {SliderDefault})
    \/ AppInitFrames(LongFrames, {TRUE}, {SliderMin, SliderDefault, SliderMax})

AppNext == PerformLocalReconciliation \/ AIStep \/ GenerateReport

AppSpec == AppInit /\ [][AppNext]_vars

\* The variables of a reconciliation run, at rest while the page is used
RunAtRest ==
    /\ df_excel = DataFrame(<<>>, <<>>, <<>>)
    /\ df_sql = DataFrame(<<>>, <<>>, <<>>)
    /\ ai_mismatches = <<>>
    /\ local_results = NotComputed
    /\ report_df = <<>>
    /\ pc = "page"
    /\ api_key = FALSE
    /\ sample_size = SliderDefault
    /\ ai_sample = NoSample
    /\ ai_message = "pending"

\* The user puts files into the uploaders or takes them out; the script runs
ChooseFiles ==
    /\ pc = "page"
    /\ \E excel_file, sql_file \in UploadChoices :
           uploads' = [excel_file |-> excel_file, sql_file |-> sql_file]
    /\ page' = Page(session_state, uploads', "")
    /\ UNCHANGED <<session_state, df_excel, df_sql, ai_mismatches, local_results,
                   report_df, pc, api_key, sample_size, ai_sample, ai_message>>

\* Mutant: the flag is set before the two sample files are read
TrySampleDataFlagFirst ==
    /\ pc = "page"
    /\ \E excel \in SampleReads, sql \in SampleReads :
           /\ session_state' =
                  (IF excel = <<>> THEN [session_state EXCEPT !.use_sample_data = TRUE]
                   ELSE IF sql = <<>>
                   THEN [session_state EXCEPT !.use_sample_data = TRUE,
                                              !.sample_df_excel = excel]
                   ELSE [use_sample_data |-> TRUE, sample_df_excel |-> excel,
                         sample_df_sql |-> sql])
           /\ page' = Page(session_state', uploads,
                           IF excel = <<>> \/ sql = <<>> THEN "sample_error" ELSE "")
    /\ UNCHANGED <<uploads, df_excel, df_sql, ai_mismatches, local_results,
                   report_df, pc, api_key, sample_size, ai_sample, ai_message>>

\* A click on "Try with Sample Data": the two reads in turn, either of which
\* can fail, then the flag and the rerun
TrySampleData ==
    /\ pc = "page"
    /\ \E excel \in SampleReads, sql \in SampleReads :
           /\ session_state' =
                  (IF excel = <<>> THEN session_state
                   ELSE IF sql = <<>>
                   THEN [session_state EXCEPT !.sample_df_excel = excel]
                   ELSE [use_sample_data |-> TRUE, sample_df_excel |-> excel,
                         sample_df_sql |-> sql])
           /\ page' = Page(session_state', uploads,
                           IF excel = <<>> \/ sql = <<>> THEN "sample_error" ELSE "")
    /\ UNCHANGED <<uploads, df_excel, df_sql, ai_mismatches, local_results,
                   report_df, pc, api_key, sample_size, ai_sample, ai_message>>

\* A click on "Use File Upload Instead", shown while the sample data is used
UseFileUploadInstead ==
    /\ pc = "page"
    /\ session_state.use_sample_data
    /\ session_state' = InitialSession
    /\ page' = Page(session_state', uploads, "")
    /\ UNCHANGED <<uploads, df_excel, df_sql, ai_mismatches, local_results,
                   report_df, pc, api_key, sample_size, ai_sample, ai_message>>

UiInit ==
    /\ RunAtRest
    /\ session_state = InitialSession
    /\ uploads = [excel_file |-> NoFile, sql_file |-> NoFile]
    /\ page = Page(session_state, uploads, "")

UiNext == ChooseFiles \/ TrySampleData \/ UseFileUploadInstead

UiSpec == UiInit /\ [][UiNext]_vars

(***************************************************************************)
(* Properties                                                              *)
(***************************************************************************)
\* perform_local_reconciliation has returned its result
Returned == pc \in {"analyzed", "reported", "report_raised"}

Issues == local_results.potential_issues

HasIssue(kind) == \E i \in 1..Len(Issues) : Issues[i].kind = kind

\* C1: the issue list returned by perform_local_reconciliation(A, B) is never
\* empty.
C1_IssuesNeverEmpty == Returned => Len(Issues) >= 1

\* C1 witness: a returned analysis that found nothing and holds the
\* informational entries.
C1_Witness ==
    /\ pc = "analyzed"
    /\ df_excel # df_sql
    /\ Issues[1] = NoDiscrepancies

\* C2 as claimed: a dataset compared with itself (repeated rows, a Date column
\* and the empty dataset included) returns only the two informational entries
\* and row_difference 0.
C2_SelfCompareAsClaimed ==
    (df_excel = df_sql /\ pc # "loaded") =>
        /\ Returned
        /\ Issues = <<NoDiscrepancies, TotalReconciled(len(df_excel))>>
        /\ local_results.row_difference = 0

\* No row of df equals an earlier row in all columns
NoRepeatedRows(df) ==
    \A i, j \in 1..Len(df.rows) : i < j => df.rows[i] # df.rows[j]

\* Every Date value that is not null parses, and at least one is not null
DatesUsable(df) ==
    /\ \E i \in 1..len(df) : Series(df, "Date")[i] # <<>>
    /\ \A i \in 1..len(df) :
           Series(df, "Date")[i] # <<>> => Series(df, "Date")[i][1] \in DOMAIN DateParse

\* C2 amended: a dataset without repeated rows whose Date column, if it has
\* one, holds only values that parse and at least one that is not null,
\* compared with itself, returns only the two informational entries and
\* row_difference 0.
C2_SelfCompare ==
    (/\ df_excel = df_sql
     /\ pc # "loaded"
     /\ NoRepeatedRows(df_excel)
     /\ HasColumn(df_excel, "Date") => DatesUsable(df_excel)) =>
        /\ Returned
        /\ Issues = <<NoDiscrepancies, TotalReconciled(len(df_excel))>>
        /\ local_results.row_difference = 0

\* C2 witness: a dataset of two different rows with an amount and a date,
\* compared with itself.
C2_Witness ==
    /\ pc = "analyzed"
    /\ df_excel = df_sql
    /\ len(df_excel) = 2
    /\ HasColumn(df_excel, "Date")
    /\ NoRepeatedRows(df_excel)
    /\ numeric_cols(df_excel) # <<>>

\* C3: the result holds both row counts and their signed difference, and the
\* row count issue, with both counts, is in the list exactly when they differ.
C3_RowCounts ==
    Returned =>
        /\ local_results.total_excel_rows = Len(df_excel.rows)
        /\ local_results.total_sql_rows = Len(df_sql.rows)
        /\ local_results.row_difference = Len(df_excel.rows) - Len(df_sql.rows)
        /\ HasIssue("row_count") <=> Len(df_excel.rows) # Len(df_sql.rows)
        /\ \A i \in 1..Len(Issues) :
               Issues[i].kind = "row_count" =>
                   /\ Issues[i].x1 = Len(df_excel.rows)
                   /\ Issues[i].x2 = Len(df_sql.rows)

\* C3 witness: fewer rows in A than in B, a negative difference.
C3_Witness ==
    /\ pc = "analyzed"
    /\ Len(df_excel.rows) < Len(df_sql.rows)
    /\ local_results.row_difference < 0
    /\ HasIssue("row_count")

HasTotalsIssue(col) ==
    \E i \in 1..Len(Issues) : Issues[i].kind = "totals" /\ Issues[i].col = col

\* The absolute difference of the two sums of a column, as <<hundredths,
\* ten-millionths>>
SumsApart(col) == AmountAbs(AmountSub(ColumnSum(df_excel, col), ColumnSum(df_sql, col)))

\* C4: for every column numeric in A and present in B the totals issue is
\* emitted exactly when the sums differ by more than 0.01: not at a
\* difference of exactly 0.01, and at 0.0100001.
C4_TotalsTolerance ==
    Returned =>
        \A i \in 1..Len(df_excel.columns) :
            LET col == df_excel.columns[i]
            IN  (IsNumericDtype(df_excel.dtypes[i]) /\ HasColumn(df_sql, col)) =>
                    /\ HasTotalsIssue(col) <=>
                           (SumsApart(col)[1] > 1 \/ (SumsApart(col)[1] = 1 /\ SumsApart(col)[2] > 0))
                    /\ SumsApart(col) = <<1, 0>> => ~HasTotalsIssue(col)
                    /\ SumsApart(col) = <<1, 1>> => HasTotalsIssue(col)

\* C4 witness: sums that differ by 0.0100001, and the issue.
C4_Witness ==
    /\ pc = "analyzed"
    /\ HasColumn(df_excel, "debit") /\ HasColumn(df_sql, "debit")
    /\ IsNumericDtype(DtypeOf(df_excel, "debit"))
    /\ SumsApart("debit") = <<1, 1>>
    /\ HasTotalsIssue("debit")

\* C5: with the empty AI list the report has one row per issue, in the order
\* of the issues, each with Transaction ID "Statistical", Discrepancy Type
\* "Statistical Analysis", the issue as Description and both data fields
\* "Aggregate data".
C5_StatisticalRowsOnly ==
    (pc = "reported" /\ ai_mismatches = <<>>) =>
        /\ Len(report_df) = Len(Issues)
        /\ \A i \in 1..Len(report_df) :
               /\ report_df[i].TransactionID = Str("Statistical")
               /\ report_df[i].DiscrepancyType = StatisticalAnalysis
               /\ report_df[i].Description = Issues[i]
               /\ report_df[i].ExcelData = <<"Aggregate data">>
               /\ report_df[i].SQLData = <<"Aggregate data">>

\* C5 witness: a report of several different issues built from no AI result.
C5_Witness ==
    /\ pc = "reported"
    /\ ai_mismatches = <<>>
    /\ Len(report_df) >= 3
    /\ report_df[1].Description # report_df[2].Description

WithoutErrors(ai) == SelectSeq(ai, LAMBDA mismatch : mismatch.error = <<>>)

\* C6: a record carrying an error field contributes no row: the report of a
\* list is the report of the list without its error-carrying records, and
\* the report of a lone error marker is the report of the empty list.
C6_ErrorRecordsInert ==
    pc \in {"reported", "report_raised"} =>
        LET clean == generate_reconciliation_report(WithoutErrors(ai_mismatches),
                                                    local_results)
            empty == generate_reconciliation_report(<<>>, local_results)
        IN  /\ (pc = "report_raised") = clean.raised
            /\ pc = "reported" => report_df = clean.rows
            /\ (Len(ai_mismatches) = 1 /\ ai_mismatches[1].error # <<>>) =>
                   pc = "reported" /\ report_df = empty.rows
            /\ pc = "reported" =>
                   Len(report_df) = Len(Issues) + Len(WithoutErrors(ai_mismatches))

\* C6 witness: a list of an error-carrying record that also has the expected
\* fields, followed by a record without error.
C6_Witness ==
    /\ pc = "reported"
    /\ Len(ai_mismatches) = 2
    /\ ai_mismatches[1].error # <<>>
    /\ ai_mismatches[1].transaction_id # <<>>
    /\ ai_mismatches[2].error = <<>>

AmountUnderscoreLower ==
    <<"A", "m", "o", "u", "n", "t", "_", "d", "i", "f", "f", "e", "r", "e",
      "n", "c", "e">>

AmountUnderscoreUpper ==
    <<"A", "m", "o", "u", "n", "t", "_", "D", "i", "f", "f", "e", "r", "e",
      "n", "c", "e">>

C7_Record ==
    Mismatch(<<Str("123")>>, <<TypeStr(AmountDifference)>>,
             <<Str("Debit amount differs by $0.01")>>, <<>>, <<>>, <<>>)

\* C7 as claimed: the AI list of the one record {transaction_id "123",
\* discrepancy_type "amount_difference", reason} appends exactly one row after
\* the statistical rows, with Discrepancy Type "Amount_difference" and Impact
\* "High".
C7_TitleAsClaimed ==
    (pc = "reported" /\ ai_mismatches = <<C7_Record>>) =>
        /\ Len(report_df) = Len(Issues) + 1
        /\ report_df[Len(report_df)].DiscrepancyType = AmountUnderscoreLower
        /\ report_df[Len(report_df)].Impact = "High"

\* C7 amended: the same list appends exactly one row after the statistical
\* rows, with Discrepancy Type "Amount_Difference" (str.title() capitalises
\* the letter after the underscore too) and Impact "High".
C7_Title ==
    (pc = "reported" /\ ai_mismatches = <<C7_Record>>) =>
        /\ Len(report_df) = Len(Issues) + 1
        /\ \A i \in 1..Len(Issues) : report_df[i].TransactionID = Str("Statistical")
        /\ report_df[Len(report_df)].TransactionID = Str("123")
        /\ report_df[Len(report_df)].DiscrepancyType = AmountUnderscoreUpper
        /\ report_df[Len(report_df)].Impact = "High"

\* C7 witness: the report built from that list.
C7_Witness ==
    /\ pc = "reported"
    /\ ai_mismatches = <<C7_Record>>
    /\ Len(report_df) = Len(Issues) + 1

\* C8: statistical rows come first, in the order of the issues; AI rows
\* follow, in the order of the records without error; no row is dropped, so
\* the row count is the number of issues plus the number of those records.
C8_OrderNoDedup ==
    pc = "reported" =>
        LET kept == WithoutErrors(ai_mismatches)
        IN  /\ Len(report_df) = Len(Issues) + Len(kept)
            /\ \A i \in 1..Len(Issues) :
                   /\ report_df[i].TransactionID = Str("Statistical")
                   /\ report_df[i].Description = Issues[i]
            /\ \A j \in 1..Len(kept) :
                   /\ report_df[Len(Issues) + j].TransactionID =
                          (IF kept[j].transaction_id = <<>> THEN Str("Unknown")
                           ELSE kept[j].transaction_id[1])
                   /\ report_df[Len(Issues) + j].Description =
                          (IF kept[j].reason = <<>> THEN Str("No description")
                           ELSE kept[j].reason[1])

\* C8 witness: a report in which an AI row repeats a statistical row in every
\* field and another AI row repeats that AI row.
C8_Witness ==
    /\ pc = "reported"
    /\ Len(report_df) = Len(Issues) + 2
    /\ report_df[Len(Issues) + 1] = report_df[Len(Issues) + 2]
    /\ \E i \in 1..Len(Issues) : report_df[i] = report_df[Len(Issues) + 1]

\* C9 as claimed: perform_local_reconciliation never raises, whatever the row
\* counts, column sets and dtypes of the two datasets, and a date that does
\* not parse becomes an issue.
C9_AnalysisNeverRaises ==
    /\ pc # "analysis_raised"
    /\ (Returned /\ HasColumn(df_excel, "Date") /\ HasColumn(df_sql, "Date")
          /\ (to_datetime_raises(Series(df_excel, "Date"))
                \/ to_datetime_raises(Series(df_sql, "Date")))) =>
           HasIssue("date_unparsed")

\* C10 as claimed: no mismatch record, whatever fields it lacks or holds as
\* None, aborts generate_reconciliation_report.
C10_ReportNeverAborts == pc # "report_raised"

\* The run of the application has stopped: no step of it is left to take
RunEnded == pc \in {"analysis_raised", "reported", "report_raised"}

\* The two datasets hold every column they share with the same dtype
WellFormed ==
    \A i \in 1..Len(df_excel.columns), j \in 1..Len(df_sql.columns) :
        df_excel.columns[i] = df_sql.columns[j] => df_excel.dtypes[i] = df_sql.dtypes[j]

\* C11 as claimed: a run of the application on two well-formed datasets ends
\* with a report, whether the AI step was skipped for lack of a key, returned
\* an empty list, a list of records or a lone error marker, or raised.
C11_RunYieldsReport ==
    (ai_message # "direct" /\ WellFormed /\ RunEnded) => pc = "reported"

\* The scenario of C12: three rows on each side, one numeric column debit,
\* the sums 300.00 and 300.02
EndToEndCase ==
    /\ len(df_excel) = 3 /\ len(df_sql) = 3
    /\ df_excel.columns = <<"debit">> /\ df_sql.columns = <<"debit">>
    /\ IsNumericDtype(DtypeOf(df_excel, "debit")) /\ IsNumericDtype(DtypeOf(df_sql, "debit"))
    /\ ColumnSum(df_excel, "debit") = <<30000, 0>>
    /\ ColumnSum(df_sql, "debit") = <<30002, 0>>

\* C12 as claimed: in the scenario the analysis yields exactly one issue, the
\* totals issue of debit, which reports a difference of $0.02 and a
\* percentage of about 0.0067 (between 0.0066 and 0.0068), and the report
\* built with the empty AI list has exactly one row.
C12_EndToEndAsClaimed ==
    (Returned /\ EndToEndCase) =>
        /\ Len(Issues) = 1
        /\ Issues[1].kind = "totals" /\ Issues[1].col = "debit"
        /\ Issues[1].x3 = 2
        /\ Issues[1].x4 * 1000 \in 66..68
        /\ (pc = "reported" /\ ai_mismatches = <<>>) => Len(report_df) = 1

\* C12 amended: in the scenario, when neither side has a repeated row, the
\* analysis yields exactly one issue, the totals issue of debit, printed as
\* Excel=$300.00, SQL=$300.02, difference $0.02 and percentage 0.0 (one
\* decimal), and the report built with the empty AI list is exactly the
\* statistical row of that issue.
C12_EndToEnd ==
    (Returned /\ EndToEndCase /\ NoRepeatedRows(df_excel) /\ NoRepeatedRows(df_sql)) =>
        /\ Issues = <<Val("totals", "", "debit", 30000, 30002, 2, 0)>>
        /\ (pc = "reported" /\ ai_mismatches = <<>>) =>
               /\ Len(report_df) = 1
               /\ report_df[1].TransactionID = Str("Statistical")
               /\ report_df[1].Description = Issues[1]

\* C12 witness: the scenario without repeated rows, analysed and reported.
C12_Witness ==
    /\ pc = "reported" /\ ai_mismatches = <<>>
    /\ EndToEndCase /\ NoRepeatedRows(df_excel) /\ NoRepeatedRows(df_sql)
    /\ Len(report_df) = 1
    /\ report_df[1].Description.x3 = 2

\* The rows of a dataset beyond the first occurrence of each distinct row
RepeatedRows(df) == Len(df.rows) - Cardinality({df.rows[i] : i \in 1..Len(df.rows)})

DuplicateIssueIndexes == {i \in 1..Len(Issues) : Issues[i].kind = "duplicates"}

\* C13: the duplicate issue is emitted, once, exactly when one of the two
\* datasets has a row equal to an earlier row, and it carries for each
\* dataset the number of rows beyond the first occurrence of each distinct
\* row (a row present twice counts 1, three times 2).
C13_Duplicates ==
    Returned =>
        /\ Cardinality(DuplicateIssueIndexes) =
               (IF RepeatedRows(df_excel) > 0 \/ RepeatedRows(df_sql) > 0 THEN 1 ELSE 0)
        /\ \A i \in DuplicateIssueIndexes :
               /\ Issues[i].x1 = RepeatedRows(df_excel)
               /\ Issues[i].x2 = RepeatedRows(df_sql)

\* C13 witness: one row three times on one side, no repeated row on the
\* other, and the issue with the counts 2 and 0.
C13_Witness ==
    /\ pc = "analyzed"
    /\ len(df_excel) = 3
    /\ df_excel.rows[1] = df_excel.rows[2] /\ df_excel.rows[2] = df_excel.rows[3]
    /\ NoRepeatedRows(df_sql)
    /\ \E i \in DuplicateIssueIndexes : Issues[i].x1 = 2 /\ Issues[i].x2 = 0

FirstRows(df, n) == SubSeq(df.rows, 1, IF n < Len(df.rows) THEN n ELSE Len(df.rows))

\* C15 as claimed: the sample handed to the AI holds, of each dataset, the
\* first min(N, row count) rows in their order, N being the sample size the
\* user of the application chose on the slider.
C15_SampleSizeApplied ==
    ai_sample.sent =>
        /\ ai_sample.excel = FirstRows(df_excel, sample_size)
        /\ ai_sample.sql = FirstRows(df_sql, sample_size)

\* The text holds the letters t, o, t, a, l in a row, in either case
HasTotal(text) ==
    \E k \in 0..(Len(text) - 5) :
        /\ text[k + 1] \in {"t", "T"} /\ text[k + 2] \in {"o", "O"}
        /\ text[k + 3] \in {"t", "T"} /\ text[k + 4] \in {"a", "A"}
        /\ text[k + 5] \in {"l", "L"}

\* C16: a statistical row has Impact "High" when its issue text contains
\* "total" in any case and "Medium" otherwise, an AI row has Impact "High",
\* and so every row has Impact "High" or "Medium".
C16_Impact ==
    pc = "reported" =>
        \A i \in 1..Len(report_df) :
            /\ i <= Len(Issues) =>
                   report_df[i].Impact =
                       (IF HasTotal(Text(report_df[i].Description)) THEN "High" ELSE "Medium")
            /\ i > Len(Issues) => report_df[i].Impact = "High"
            /\ report_df[i].Impact \in {"High", "Medium"}

\* C16 witness: a report with a statistical row that is "Medium", a
\* statistical row that is "High" for the word "Total" with a capital, and an
\* AI row.
C16_Witness ==
    /\ pc = "reported"
    /\ Len(report_df) > Len(Issues)
    /\ \E i, j \in 1..Len(Issues) :
           /\ report_df[i].Impact = "Medium"
           /\ report_df[j].Impact = "High"
           /\ Issues[j].kind = "total_reconciled"

\* The step of the analysis that emits an issue of the kind
StepOf(kind) ==
    CASE kind = "row_count" -> 1
      [] kind = "columns" -> 2
      [] kind \in {"totals", "nulls"} -> 3
      [] kind = "duplicates" -> 4
      [] kind \in {"date_ranges", "date_unparsed"} -> 5
      [] kind = "no_discrepancies" -> 6
      [] kind = "total_reconciled" -> 7

\* The position of a column in A
PositionInA(col) == CHOOSE k \in 1..Len(df_excel.columns) : df_excel.columns[k] = col

\* The first issue belongs strictly before the second
Precedes(first, second) ==
    \/ StepOf(first.kind) < StepOf(second.kind)
    \/ /\ StepOf(first.kind) = 3 /\ StepOf(second.kind) = 3
       /\ \/ PositionInA(first.col) < PositionInA(second.col)
          \/ first.col = second.col /\ first.kind = "totals" /\ second.kind = "nulls"

\* C17: in the issue list the row-count issue comes before the column
\* structure issue, which comes before the per-column issues (columns in the
\* order of A, the sum issue of a column before its null-count issue), which
\* come before the duplicate issue, which comes before the date issue; each
\* of them occurs at most once.
C17_IssueOrder ==
    Returned => \A i, j \in 1..Len(Issues) : i < j => Precedes(Issues[i], Issues[j])

\* C17 witness: every step emitted, two numeric columns of A among them.
C17_Witness ==
    /\ pc = "analyzed"
    /\ Len(Issues) = 7
    /\ [i \in 1..7 |-> Issues[i].kind] =
           <<"row_count", "columns", "totals", "nulls", "totals", "duplicates", "date_ranges">>
    /\ Issues[3].col = "debit" /\ Issues[4].col = "debit" /\ Issues[5].col = "credit"

Informational == {i \in 1..Len(Issues) : Issues[i].kind \in {"no_discrepancies", "total_reconciled"}}

\* C18: the informational entries are in the list exactly when no
\* discrepancy issue is; then the list is the "no discrepancies" marker
\* followed by the "total records reconciled" entry with the smaller of the
\* two row counts.
C18_Informational ==
    Returned =>
        /\ (Informational # {}) <=> (Informational = 1..Len(Issues))
        /\ (Informational = {}) <=> (\E i \in 1..Len(Issues) : StepOf(Issues[i].kind) <= 5)
        /\ Informational # {} =>
               /\ Len(Issues) = 2
               /\ Issues[1].kind = "no_discrepancies"
               /\ Issues[2].kind = "total_reconciled"
               /\ Issues[2].x1 = (IF len(df_excel) < len(df_sql) THEN len(df_excel)
                                  ELSE len(df_sql))

\* C18 witness: two datasets of two rows without discrepancy, and the two
\* entries with the count 2.
C18_Witness ==
    /\ pc = "analyzed"
    /\ len(df_excel) = 2 /\ len(df_sql) = 2
    /\ Informational = {1, 2}
    /\ Issues[2].x1 = 2

ColumnIssueIndexes == {i \in 1..Len(Issues) : Issues[i].kind = "columns"}

\* The column names differ in some position or in their number
ColumnsDiffer ==
    \/ Len(df_excel.columns) # Len(df_sql.columns)
    \/ \E k \in 1..Len(df_excel.columns) : df_excel.columns[k] # df_sql.columns[k]

\* C19: the column structure issue is emitted once when the column-name
\* sequences of A and B differ in a name or in the order, and not at all
\* when they are equal.
C19_ColumnStructure ==
    Returned => Cardinality(ColumnIssueIndexes) = (IF ColumnsDiffer THEN 1 ELSE 0)

\* C19 witness: the same three names in another order, two positions
\* differing, and one issue.
C19_Witness ==
    /\ pc = "analyzed"
    /\ df_excel.columns = <<"debit", "credit", "Date">>
    /\ df_sql.columns = <<"Date", "credit", "debit">>
    /\ Cardinality(ColumnIssueIndexes) = 1

\* The number of missing values of a column
Missing(df, col) ==
    LET k == CHOOSE k \in 1..Len(df.columns) : df.columns[k] = col
    IN  Cardinality({r \in 1..Len(df.rows) : df.rows[r][k] = <<>>})

\* The column is numeric in A and present in B
Qualifies(col) ==
    /\ \E k \in 1..Len(df_excel.columns) :
           df_excel.columns[k] = col /\ df_excel.dtypes[k] \in {"float64", "int64"}
    /\ \E k \in 1..Len(df_sql.columns) : df_sql.columns[k] = col

\* C20: a sum or null-count issue is emitted only for a column that is
\* numeric in A and present in B, and for such a column the null-count issue
\* is emitted exactly when A and B have different numbers of missing values
\* in it.
C20_PerColumn ==
    Returned =>
        /\ \A i \in 1..Len(Issues) :
               Issues[i].kind \in {"totals", "nulls"} => Qualifies(Issues[i].col)
        /\ \A k \in 1..Len(df_excel.columns) :
               LET col == df_excel.columns[k]
               IN  Qualifies(col) =>
                       ((\E i \in 1..Len(Issues) :
                             Issues[i].kind = "nulls" /\ Issues[i].col = col)
                        <=> Missing(df_excel, col) # Missing(df_sql, col))

\* C20 witness: A with a numeric column that B lacks and a numeric column
\* that B has with fewer missing values, for which alone the null-count
\* issue is emitted.
C20_Witness ==
    /\ pc = "analyzed"
    /\ df_excel.columns = <<"debit", "credit">>
    /\ df_sql.columns = <<"debit">>
    /\ Missing(df_excel, "debit") < Missing(df_sql, "debit")
    /\ \E i \in 1..Len(Issues) : Issues[i].kind = "nulls" /\ Issues[i].col = "debit"
    /\ \A i \in 1..Len(Issues) : Issues[i].col # "credit"

\* Both datasets have a column named exactly "Date"
BothHaveDate ==
    /\ \E i \in 1..Len(df_excel.columns) : df_excel.columns[i] = "Date"
    /\ \E j \in 1..Len(df_sql.columns) : df_sql.columns[j] = "Date"

\* The calendar days of the Date values of a dataset that are not null
Days(df) ==
    {DateParse[Series(df, "Date")[i][1]] \div 24 :
        i \in {r \in 1..len(df) : Series(df, "Date")[r] # <<>>}}

\* The first and the last day of a dataset, as <<first, last>>
DayRange(df) ==
    <<CHOOSE d \in Days(df) : \A e \in Days(df) : d <= e,
      CHOOSE d \in Days(df) : \A e \in Days(df) : d >= e>>

DateIssueIndexes ==
    {i \in 1..Len(Issues) : Issues[i].kind \in {"date_ranges", "date_unparsed"}}

\* The dataset with its Date column under another name
WithoutDateName(df) ==
    [df EXCEPT !.columns = [i \in 1..Len(df.columns) |->
                               IF df.columns[i] = "Date" THEN "date" ELSE df.columns[i]]]

\* A numeric column of A is a column of strings in B: the sums cannot be
\* compared
SumsIncomparable ==
    \E i \in 1..Len(df_excel.columns), j \in 1..Len(df_sql.columns) :
        /\ df_excel.columns[i] = df_sql.columns[j]
        /\ df_excel.dtypes[i] \in {"float64", "int64"}
        /\ df_sql.dtypes[j] = "object"
        /\ \E r \in 1..len(df_sql) : df_sql.rows[r][j] # <<>>

\* C21: the date check runs only when both datasets have a column named
\* exactly "Date"; it then appends at most one issue, the "Date ranges
\* differ" issue exactly when every value parses, both sides have a date and
\* the [first day, last day] ranges differ, the "Unable to parse date fields"
\* issue exactly when a value does not parse or a side has no date to format;
\* the issues of the earlier steps stay as they are, and the analysis
\* returns whenever the sums could be compared.
C21_DateCheck ==
    /\ (pc # "loaded" /\ ~SumsIncomparable) => Returned
    /\ Returned =>
           /\ ~BothHaveDate => DateIssueIndexes = {}
           /\ Cardinality(DateIssueIndexes) <= 1
           /\ BothHaveDate =>
                  /\ HasIssue("date_unparsed") <=>
                         ~(DatesUsable(df_excel) /\ DatesUsable(df_sql))
                  /\ HasIssue("date_ranges") <=>
                         /\ DatesUsable(df_excel) /\ DatesUsable(df_sql)
                         /\ DayRange(df_excel) # DayRange(df_sql)
           /\ \A i \in DateIssueIndexes :
                  /\ i = Len(Issues)
                  /\ Issues[i].kind = "date_ranges" =>
                         /\ <<Issues[i].x1, Issues[i].x2>> = DayRange(df_excel)
                         /\ <<Issues[i].x3, Issues[i].x4>> = DayRange(df_sql)
                  /\ SubSeq(Issues, 1, i - 1) =
                         SelectSeq(perform_local_reconciliation(
                                       WithoutDateName(df_excel),
                                       WithoutDateName(df_sql)).results.potential_issues,
                                   LAMBDA issue : StepOf(issue.kind) <= 4)

\* C21 witness: a value that is no date, and the "Unable to parse" issue
\* after the row-count issue of an earlier step.
C21_Witness ==
    /\ pc = "analyzed"
    /\ BothHaveDate
    /\ \E r \in 1..len(df_excel) : Series(df_excel, "Date")[r] = <<"not a date">>
    /\ Len(Issues) >= 2
    /\ Issues[1].kind = "row_count"
    /\ Issues[Len(Issues)].kind = "date_unparsed"

\* The value is a structured object with a debit or a credit field
CarriesAmounts(data) == data.kind = "dict" /\ (data.debit # <<>> \/ data.credit # <<>>)

\* What C22 says of one data field of a record and its rendering in the row
RenderedAsClaimed(maybe, rendered) ==
    /\ (rendered[1] = "Amount: ") <=> (maybe # <<>> /\ CarriesAmounts(maybe[1]))
    /\ maybe = <<>> => rendered = <<"">>
    /\ (maybe # <<>> /\ maybe[1].kind = "str") => rendered = <<maybe[1].s>>

\* C22 as claimed: in every AI-sourced row the Excel Data and the SQL Data
\* field read "Amount: {debit} / {credit}" exactly when the value of the
\* record is a structured object carrying debit or credit fields; a string is
\* rendered as itself, an object without these fields in its plain string
\* form, an absent value as the empty string.
C22_DataRendering ==
    pc = "reported" =>
        LET kept == WithoutErrors(ai_mismatches)
        IN  \A j \in 1..Len(kept) :
                Len(report_df) = Len(Issues) + Len(kept) =>
                    /\ RenderedAsClaimed(kept[j].excel_data,
                                         report_df[Len(Issues) + j].ExcelData)
                    /\ RenderedAsClaimed(kept[j].sql_data,
                                         report_df[Len(Issues) + j].SQLData)

\* The first two rows of the report are the two informational entries
StartsWithInformationalRows ==
    /\ Len(report_df) >= 2
    /\ report_df[1].Description.kind = "no_discrepancies"
    /\ report_df[2].Description.kind = "total_reconciled"

AIRowsAdded == Len(report_df) - Len(Issues)

\* C24 as claimed: after an AI call that returned a list with a first
\* record, the application says "AI Analysis Failed" exactly when the list
\* adds no row to the report, and "AI Analysis Complete: n insights" only
\* when the list adds exactly n rows, n being its length.
C24_VerdictAgrees ==
    (pc = "reported" /\ ai_message \in {"failed", "complete"}) =>
        /\ (ai_message = "failed") <=> (AIRowsAdded = 0)
        /\ ai_message = "complete" => AIRowsAdded = Len(ai_mismatches)

\* C25: whatever the sequence of script runs, clicks on "Try with Sample
\* Data" (succeeding or failing at either read) and clicks on "Use File
\* Upload Instead", while use_sample_data is true both sample datasets are
\* not None, the page is drawn without error, and "Start Reconciliation" is
\* offered only with two datasets selected that are not None: the samples
\* while use_sample_data is true, the uploads that could be read otherwise.
C25_SessionState ==
    /\ session_state.use_sample_data =>
           /\ session_state.sample_df_excel # <<>>
           /\ session_state.sample_df_sql # <<>>
    /\ ~page.raised
    /\ page.offered =>
           /\ page.final_df_excel # <<>> /\ page.final_df_sql # <<>>
           /\ session_state.use_sample_data =>
                  /\ page.final_df_excel = session_state.sample_df_excel
                  /\ page.final_df_sql = session_state.sample_df_sql
           /\ ~session_state.use_sample_data =>
                  /\ page.final_df_excel = uploads.excel_file.df
                  /\ page.final_df_sql = uploads.sql_file.df

\* C25 witness: the sample data in use, a later click on "Try with Sample
\* Data" that failed at a read, and the reconciliation still offered.
C25_Witness ==
    /\ session_state.use_sample_data
    /\ page.message = "sample_error"
    /\ page.offered
    /\ uploads.excel_file = NoFile

=============================================================================
